---- MODULE Spec2Model ----
(***************************************************************************)
(* SequenceToSequence.forward (src/models/sequence_to_sequence.py): the    *)
(* encoder-decoder orchestration loop, one step of the model per           *)
(* statement of the method.  Tensors are records [shape, data]: shape is   *)
(* the tuple of dimension sizes, data the nested 0-indexed functions.      *)
(***************************************************************************)
EXTENDS Integers, Sequences, FiniteSets, TLC

\* Bounds of the model.
MaxBatch == 2
MaxSourceLen == 2
MaxTargetLen == 3
MaxVocab == 3

VARIABLES
    tokenized_source_sentence,    \* argument: (batch, source length) tokens
    tokenized_target_sentence,    \* argument: (batch, target length) tokens
    teacher_forcing,              \* argument
    out_features,                 \* self.decoder.fc_out.out_features
    batch_size,                   \* local, line 36
    target_sentence_length,       \* local, line 37
    target_sentence_vocab_length, \* local, line 38
    output,                       \* local, line 42
    hidden_layer,                 \* local, lines 52 and 69
    cell_layer,                   \* local, lines 52 and 69
    target_input,                 \* local, lines 56 and 77
    prediction_index,             \* loop variable, line 60
    decoder_output,               \* local, line 69
    pc,                           \* position in forward
    error,                        \* exception raised out of forward, or "none"
    result,                       \* value returned by forward, or NoTensor
    events,                       \* history: the order of the operations performed
    encoder_calls,                \* history: one record per self.encoder(...) call
    decoder_calls,                \* history: one record per self.decoder(...) call
    writes                        \* history: one record per output[:, i] = ... store

vars == <<tokenized_source_sentence, tokenized_target_sentence, teacher_forcing,
          out_features, batch_size, target_sentence_length,
          target_sentence_vocab_length, output, hidden_layer, cell_layer,
          target_input, prediction_index, decoder_output, pc, error, result,
          events, encoder_calls, decoder_calls, writes>>

inputs == <<tokenized_source_sentence, tokenized_target_sentence, teacher_forcing,
            out_features>>

locals == <<batch_size, target_sentence_length, target_sentence_vocab_length,
            output, hidden_layer, cell_layer, target_input, prediction_index,
            decoder_output>>

history == <<events, encoder_calls, decoder_calls, writes>>

----------------------------------------------------------------------------
\* Tensors

\* A name not yet bound to a tensor.
NoTensor == [shape |-> <<>>, data |-> <<>>]

\* A recurrent state component not yet produced.
NoState == [layer |-> "none", gen |-> -1]

\* Number of elements of a tensor of the given shape.
RECURSIVE Numel(_)
Numel(shape) == IF shape = <<>> THEN 1 ELSE Head(shape) * Numel(Tail(shape))

\* torch.zeros(size=(b, t, v))
Zeros(b, t, v) ==
    [shape |-> <<b, t, v>>,
     data  |-> [i \in 0..(b - 1) |-> [j \in 0..(t - 1) |-> [k \in 0..(v - 1) |-> 0]]]]

\* x[:, j] of a 2-D tensor is defined when j indexes its second axis.
ColumnOk(x, j) == j >= 0 /\ j < x.shape[2]

\* x[:, j] of a 2-D tensor: the 1-D tensor of column j.
Column(x, j) ==
    [shape |-> <<x.shape[1]>>,
     data  |-> [i \in 0..(x.shape[1] - 1) |-> x.data[i][j]]]

\* v.reshape(shape=(b, 1)) of a 1-D tensor is defined when the element counts agree.
ReshapeOk(v, b) == Numel(v.shape) = Numel(<<b, 1>>)

\* v.reshape(shape=(b, 1)) of a 1-D tensor.
Reshape(v, b) ==
    [shape |-> <<b, 1>>,
     data  |-> [i \in 0..(b - 1) |-> [k \in 0..0 |-> v.data[i]]]]

\* The first index of the maximal element of one row.
FirstMax(row, width) ==
    CHOOSE k \in 0..(width - 1) :
        /\ \A m \in 0..(width - 1) : row[m] <= row[k]
        /\ \A m \in 0..(k - 1) : row[m] < row[k]

\* x.argmax(1) of a 2-D tensor: a 1-D tensor, one index per row.
ArgMax1(x) ==
    [shape |-> <<x.shape[1]>>,
     data  |-> [i \in 0..(x.shape[1] - 1) |-> FirstMax(x.data[i], x.shape[2])]]

\* out[:, j] = x is defined when j indexes the time axis ...
SliceIndexOk(out, j) == j >= 0 /\ j < out.shape[2]

\* ... and the 2-D value x broadcasts to the slice's shape (batch, vocab).
BroadcastOk(out, x) ==
    /\ x.shape[1] \in {1, out.shape[1]}
    /\ x.shape[2] \in {1, out.shape[3]}

\* Element (i, k) of the 2-D value x expanded to the slice's shape.
Expanded(x, i, k) ==
    x.data[IF x.shape[1] = 1 THEN 0 ELSE i][IF x.shape[2] = 1 THEN 0 ELSE k]

\* A store that reaches every time index from j on.
SetTimeSliceFrom(out, j, x) ==
    [out EXCEPT !.data =
        [i \in 0..(out.shape[1] - 1) |->
            [t \in 0..(out.shape[2] - 1) |->
                IF t >= j
                THEN [k \in 0..(out.shape[3] - 1) |-> Expanded(x, i, k)]
                ELSE out.data[i][t]]]]

\* out[:, j] = x
SetTimeSlice(out, j, x) ==
    [out EXCEPT !.data =
        [i \in 0..(out.shape[1] - 1) |->
            [t \in 0..(out.shape[2] - 1) |->
                IF t = j
                THEN [k \in 0..(out.shape[3] - 1) |-> Expanded(x, i, k)]
                ELSE out.data[i][t]]]]

----------------------------------------------------------------------------
\* The collaborators

\* The (hidden, cell) pair self.encoder(source) returns.
EncoderState == <<[layer |-> "hidden", gen |-> 0], [layer |-> "cell", gen |-> 0]>>

\* The (hidden, cell) pair the n-th self.decoder(...) call returns.
DecoderState(n) == <<[layer |-> "hidden", gen |-> n], [layer |-> "cell", gen |-> n]>>

\* The distributions a decoder call may return for a batch of b rows and a
\* width of w: row i scores 1 at index (peak + i) % w, and when tie is set
\* also at the next index (cyclically), and 0 elsewhere.
Distributions(b, w) ==
    { [shape |-> <<b, w>>,
       data  |-> [i \in 0..(b - 1) |->
                    [k \in 0..(w - 1) |->
                        IF \/ k = (peak + i) % w
                           \/ tie /\ k = (peak + i + 1) % w
                        THEN 1 ELSE 0]]] :
      peak \in 0..(w - 1), tie \in BOOLEAN }

----------------------------------------------------------------------------
\* The statements of forward

\* The batch size read from the target.
BatchSizeOfTarget(source, target) == target.shape[1]

\* Line 36: batch_size = tokenized_source_sentence.shape[0]
BatchSizeOf(source, target) == source.shape[1]

\* The sequence length read from the source.
LengthOfSource(source, target) == source.shape[2]

\* Line 37: target_sentence_length = tokenized_target_sentence.shape[1]
TargetLengthOf(source, target) == target.shape[2]

\* The time index one before the loop variable.
WriteIndexBefore(index) == index - 1

\* Line 75: the time index stored to is the loop variable.
WriteIndex(index) == index

\* A loop that runs one index further.
LoopContinuesInclusive(index, length) == index <= length

\* Line 60: range(1, target_sentence_length) still has the index.
LoopContinues(index, length) == index < length

\* The state kept is the one passed in.
KeepState(current, returned) == current

\* Lines 69-71: hidden_layer, cell_layer are rebound to the returned pair.
ThreadState(current, returned) == returned

\* The greedy choice, in either mode.
GreedyInput(target, distribution, forcing, index, b) == ArgMax1(distribution)

\* Lines 77-83: the next decoder input (the teacher-forced indexing and
\* reshape are defined in the state SelectInput evaluates this in).
NextInput(target, distribution, forcing, index, b) ==
    IF forcing
    THEN Reshape(Column(target, index), b)
    ELSE ArgMax1(distribution)

Fail(kind) ==
    /\ pc' = "failed"
    /\ error' = kind
    /\ events' = Append(events, "fail")

\* Lines 36-38
ReadShapes ==
    /\ pc = "read_shapes"
    /\ batch_size' = BatchSizeOf(tokenized_source_sentence, tokenized_target_sentence)
    /\ target_sentence_length' =
           TargetLengthOf(tokenized_source_sentence, tokenized_target_sentence)
    /\ target_sentence_vocab_length' = out_features
    /\ pc' = "allocate"
    /\ UNCHANGED <<inputs, output, hidden_layer, cell_layer, target_input,
                   prediction_index, decoder_output, error, result, history>>

\* Lines 42-45
Allocate ==
    /\ pc = "allocate"
    /\ output' = Zeros(batch_size, target_sentence_length, target_sentence_vocab_length)
    /\ events' = Append(events, "alloc")
    /\ pc' = "encode"
    /\ UNCHANGED <<inputs, batch_size, target_sentence_length,
                   target_sentence_vocab_length, hidden_layer, cell_layer,
                   target_input, prediction_index, decoder_output, error, result,
                   encoder_calls, decoder_calls, writes>>

\* Line 52
Encode ==
    /\ pc = "encode"
    /\ hidden_layer' = EncoderState[1]
    /\ cell_layer' = EncoderState[2]
    /\ encoder_calls' = Append(encoder_calls,
                               [arg        |-> tokenized_source_sentence,
                                new_hidden |-> EncoderState[1],
                                new_cell   |-> EncoderState[2],
                                at         |-> Len(events) + 1])
    /\ events' = Append(events, "encode")
    /\ pc' = "start_token"
    /\ UNCHANGED <<inputs, batch_size, target_sentence_length,
                   target_sentence_vocab_length, output, target_input,
                   prediction_index, decoder_output, error, result,
                   decoder_calls, writes>>

\* Lines 56-58, and the loop variable's first value (line 60)
StartToken ==
    /\ pc = "start_token"
    /\ IF ~ColumnOk(tokenized_target_sentence, 0)
       THEN /\ Fail("IndexError")
            /\ UNCHANGED <<target_input, prediction_index>>
       ELSE IF ~ReshapeOk(Column(tokenized_target_sentence, 0), batch_size)
       THEN /\ Fail("RuntimeError")
            /\ UNCHANGED <<target_input, prediction_index>>
       ELSE /\ target_input' = Reshape(Column(tokenized_target_sentence, 0), batch_size)
            /\ prediction_index' = 1
            /\ pc' = "loop"
            /\ UNCHANGED <<error, events>>
    /\ UNCHANGED <<inputs, batch_size, target_sentence_length,
                   target_sentence_vocab_length, output, hidden_layer, cell_layer,
                   decoder_output, result, encoder_calls, decoder_calls, writes>>

\* Lines 69-71, with a decoder whose distributions have one of the given widths
DecoderCall(widths) ==
    /\ pc = "loop"
    /\ LoopContinues(prediction_index, target_sentence_length)
    /\ \E w \in widths : \E distribution \in Distributions(target_input.shape[1], w) :
         LET returned == DecoderState(Len(decoder_calls) + 1)
             kept == ThreadState(<<hidden_layer, cell_layer>>, returned)
         IN /\ decoder_output' = distribution
            /\ hidden_layer' = kept[1]
            /\ cell_layer' = kept[2]
            /\ decoder_calls' = Append(decoder_calls,
                                       [input        |-> target_input,
                                        hidden       |-> hidden_layer,
                                        cell         |-> cell_layer,
                                        index        |-> prediction_index,
                                        distribution |-> distribution,
                                        new_hidden   |-> returned[1],
                                        new_cell     |-> returned[2],
                                        at           |-> Len(events) + 1])
    /\ events' = Append(events, "decode")
    /\ pc' = "write"
    /\ UNCHANGED <<inputs, batch_size, target_sentence_length,
                   target_sentence_vocab_length, output, target_input,
                   prediction_index, error, result, encoder_calls, writes>>

\* The decoder returns distributions of its declared width.
Decode == DecoderCall({out_features})

\* The decoder returns distributions of any width.
DecodeAnyWidth == DecoderCall(1..MaxVocab)

\* Line 75
WriteOutput ==
    /\ pc = "write"
    /\ IF ~SliceIndexOk(output, WriteIndex(prediction_index))
       THEN /\ Fail("IndexError")
            /\ UNCHANGED <<output, writes>>
       ELSE IF ~BroadcastOk(output, decoder_output)
       THEN /\ Fail("RuntimeError")
            /\ UNCHANGED <<output, writes>>
       ELSE /\ output' = SetTimeSlice(output, WriteIndex(prediction_index), decoder_output)
            /\ writes' = Append(writes,
                                [index |-> WriteIndex(prediction_index),
                                 value |-> decoder_output,
                                 at    |-> Len(events) + 1])
            /\ events' = Append(events, "write")
            /\ pc' = "select"
            /\ UNCHANGED error
    /\ UNCHANGED <<inputs, batch_size, target_sentence_length,
                   target_sentence_vocab_length, hidden_layer, cell_layer,
                   target_input, prediction_index, decoder_output, result,
                   encoder_calls, decoder_calls>>

\* The next input selected, and the encoder run again inside the loop.
SelectInputReencoding ==
    /\ pc = "select"
    /\ IF teacher_forcing /\ ~ColumnOk(tokenized_target_sentence, prediction_index)
       THEN /\ Fail("IndexError")
            /\ UNCHANGED <<target_input, prediction_index, encoder_calls>>
       ELSE IF /\ teacher_forcing
               /\ ~ReshapeOk(Column(tokenized_target_sentence, prediction_index),
                             batch_size)
       THEN /\ Fail("RuntimeError")
            /\ UNCHANGED <<target_input, prediction_index, encoder_calls>>
       ELSE /\ target_input' = NextInput(tokenized_target_sentence, decoder_output,
                                         teacher_forcing, prediction_index, batch_size)
            /\ prediction_index' = prediction_index + 1
            /\ encoder_calls' = Append(encoder_calls,
                                       [arg        |-> tokenized_source_sentence,
                                        new_hidden |-> EncoderState[1],
                                        new_cell   |-> EncoderState[2],
                                        at         |-> Len(events) + 1])
            /\ events' = Append(events, "encode")
            /\ pc' = "loop"
            /\ UNCHANGED error
    /\ UNCHANGED <<inputs, batch_size, target_sentence_length,
                   target_sentence_vocab_length, output, hidden_layer, cell_layer,
                   decoder_output, result, decoder_calls, writes>>

\* Lines 77-83, and the loop variable's next value (line 60)
SelectInput ==
    /\ pc = "select"
    /\ IF teacher_forcing /\ ~ColumnOk(tokenized_target_sentence, prediction_index)
       THEN /\ Fail("IndexError")
            /\ UNCHANGED <<target_input, prediction_index>>
       ELSE IF /\ teacher_forcing
               /\ ~ReshapeOk(Column(tokenized_target_sentence, prediction_index),
                             batch_size)
       THEN /\ Fail("RuntimeError")
            /\ UNCHANGED <<target_input, prediction_index>>
       ELSE /\ target_input' = NextInput(tokenized_target_sentence, decoder_output,
                                         teacher_forcing, prediction_index, batch_size)
            /\ prediction_index' = prediction_index + 1
            /\ pc' = "loop"
            /\ UNCHANGED <<error, events>>
    /\ UNCHANGED <<inputs, batch_size, target_sentence_length,
                   target_sentence_vocab_length, output, hidden_layer, cell_layer,
                   decoder_output, result, encoder_calls, decoder_calls, writes>>

\* Line 85
Return ==
    /\ pc = "loop"
    /\ ~LoopContinues(prediction_index, target_sentence_length)
    /\ result' = output
    /\ events' = Append(events, "return")
    /\ pc' = "done"
    /\ UNCHANGED <<inputs, locals, error, encoder_calls, decoder_calls, writes>>

----------------------------------------------------------------------------
\* The calls of forward

\* A (b, n) token tensor: row i, column j holds (seed + i + j) % vocab.
Tokens(b, n, vocab, seed) ==
    [shape |-> <<b, n>>,
     data  |-> [i \in 0..(b - 1) |-> [j \in 0..(n - 1) |-> (seed + i + j) % vocab]]]

Init ==
    /\ \E b \in 1..MaxBatch, n \in 1..MaxSourceLen, seed \in 0..1 :
         tokenized_source_sentence = Tokens(b, n, 2, seed)
    /\ out_features \in 1..MaxVocab
    /\ \E b \in 1..MaxBatch, n \in 0..MaxTargetLen, seed \in 0..1 :
         tokenized_target_sentence = Tokens(b, n, out_features, seed)
    /\ teacher_forcing \in BOOLEAN
    /\ batch_size = -1
    /\ target_sentence_length = -1
    /\ target_sentence_vocab_length = -1
    /\ output = NoTensor
    /\ hidden_layer = NoState
    /\ cell_layer = NoState
    /\ target_input = NoTensor
    /\ prediction_index = -1
    /\ decoder_output = NoTensor
    /\ pc = "read_shapes"
    /\ error = "none"
    /\ result = NoTensor
    /\ events = <<>>
    /\ encoder_calls = <<>>
    /\ decoder_calls = <<>>
    /\ writes = <<>>

Next ==
    \/ ReadShapes
    \/ Allocate
    \/ Encode
    \/ StartToken
    \/ Decode
    \/ WriteOutput
    \/ SelectInput
    \/ Return

Spec == Init /\ [][Next]_vars

NextAnyWidth ==
    \/ ReadShapes
    \/ Allocate
    \/ Encode
    \/ StartToken
    \/ DecodeAnyWidth
    \/ WriteOutput
    \/ SelectInput
    \/ Return

\* forward driven by a decoder whose output width need not be the declared one
SpecAnyWidth == Init /\ [][NextAnyWidth]_vars

----------------------------------------------------------------------------
\* Properties of forward

\* The source and target arguments disagree on the batch size.
BatchMismatch == tokenized_source_sentence.shape[1] # tokenized_target_sentence.shape[1]

\* The target's sequence length, as passed by the caller.
T == tokenized_target_sentence.shape[2]

\* Every entry of a time slice of a 3-D buffer is zero.
ZeroSlice(out, t) ==
    \A i \in 0..(out.shape[1] - 1) : \A k \in 0..(out.shape[3] - 1) :
        out.data[i][t][k] = 0

\* out[:, t] as a 2-D tensor.
TimeSlice(out, t) ==
    [shape |-> <<out.shape[1], out.shape[3]>>,
     data  |-> [i \in 0..(out.shape[1] - 1) |-> out.data[i][t]]]

C2_FirstPositionZero ==
    /\ \A n \in 1..Len(writes) : writes[n].index # 0
    /\ (output # NoTensor /\ T >= 1) => ZeroSlice(output, 0)
    /\ pc = "done" => (result = output /\ (T >= 1 => ZeroSlice(result, 0)))

C2_Witness ==
    /\ pc = "done"
    /\ Len(writes) >= 2
    /\ ZeroSlice(result, 0)
    /\ ~ZeroSlice(result, 1)

\* C3: the n-th store of a call addresses time index n, holds the
\* distribution the n-th Decoder call returned and follows that call; so
\* indexes 1..T-1 are written once each in increasing order.  Slices
\* already written hold exactly their distribution, slices not yet written
\* are still zero, and at return every slice 1..T-1 holds its distribution.
C3_WrittenOnceInOrder ==
    /\ \A n \in 1..Len(writes) :
         /\ writes[n].index = n
         /\ n <= T - 1
         /\ writes[n].value = decoder_calls[n].distribution
         /\ decoder_calls[n].at < writes[n].at
         /\ n > 1 => writes[n - 1].at < decoder_calls[n].at
         /\ TimeSlice(output, n) = decoder_calls[n].distribution
    /\ output # NoTensor =>
         \A t \in (Len(writes) + 1)..(T - 1) : ZeroSlice(output, t)
    /\ pc = "done" =>
         /\ Len(writes) = (IF T >= 1 THEN T - 1 ELSE 0)
         /\ Len(decoder_calls) = Len(writes)
         /\ \A t \in 1..(T - 1) : TimeSlice(result, t) = decoder_calls[t].distribution

C3_Witness ==
    /\ pc = "done"
    /\ Len(writes) = 2
    /\ writes[1].value # writes[2].value
    /\ TimeSlice(result, 1) = writes[1].value
    /\ TimeSlice(result, 2) = writes[2].value

\* C4: the Encoder is invoked at most once in any state of a call, exactly
\* once (with the source sequence) in a call that returns, before every
\* Decoder call, and not again while the loop runs.
C4_EncoderOnce ==
    /\ Len(encoder_calls) <= 1
    /\ \A n \in 1..Len(decoder_calls) :
         /\ Len(encoder_calls) = 1
         /\ encoder_calls[1].at < decoder_calls[n].at
    /\ pc \in {"start_token", "loop", "write", "select", "done"} =>
         /\ Len(encoder_calls) = 1
         /\ encoder_calls[1].arg = tokenized_source_sentence

C4_Witness ==
    /\ pc = "done"
    /\ Len(decoder_calls) >= 2
    /\ Len(encoder_calls) = 1

\* C5: with teacher forcing, the n-th Decoder call is the one of step n and
\* its input is column n-1 of the target, shaped (batch_size, 1), whatever
\* the Decoder returned before.
C5_TeacherForcedInputs ==
    teacher_forcing =>
        \A n \in 1..Len(decoder_calls) :
            /\ decoder_calls[n].index = n
            /\ decoder_calls[n].input.shape = <<batch_size, 1>>
            /\ \A i \in 0..(batch_size - 1) :
                 decoder_calls[n].input.data[i][0] =
                     tokenized_target_sentence.data[i][n - 1]

C5_Witness ==
    /\ teacher_forcing
    /\ pc = "done"
    /\ Len(decoder_calls) >= 2
    /\ \E i \in 0..(batch_size - 1) :
         FirstMax(decoder_calls[1].distribution.data[i], out_features)
             # decoder_calls[2].input.data[i][0]

\* C6 (as stated): without teacher forcing, the input of every Decoder call
\* after the first has shape (batch_size, 1), the shape of the start-token
\* input, and holds for each batch element the first index attaining the
\* maximum of the distribution the previous Decoder call returned.
C6_GreedyInputs ==
    ~teacher_forcing =>
        \A n \in 2..Len(decoder_calls) :
            /\ decoder_calls[n].input.shape = <<batch_size, 1>>
            /\ decoder_calls[n].input.shape = decoder_calls[1].input.shape
            /\ \A i \in 0..(batch_size - 1) :
                 decoder_calls[n].input.data[i][0] =
                     FirstMax(decoder_calls[n - 1].distribution.data[i], out_features)

\* C7: when the target length is 1 the Decoder is never invoked and nothing
\* is stored; with equal batch sizes the call does not fail, and it returns
\* an all-zero buffer of shape (batch_size, 1, vocab) in both modes.
C7_LengthOne ==
    T = 1 =>
        /\ decoder_calls = <<>>
        /\ writes = <<>>
        /\ pc \notin {"write", "select"}
        /\ ~BatchMismatch => pc # "failed"
        /\ pc = "done" =>
             /\ result.shape = <<tokenized_source_sentence.shape[1], 1, out_features>>
             /\ DOMAIN result.data = 0..(tokenized_source_sentence.shape[1] - 1)
             /\ \A i \in DOMAIN result.data :
                  /\ DOMAIN result.data[i] = 0..0
                  /\ DOMAIN result.data[i][0] = 0..(out_features - 1)
             /\ ZeroSlice(result, 0)

C7_Witness ==
    /\ T = 1
    /\ pc = "done"
    /\ result.shape[1] >= 2
    /\ result.shape[3] >= 2

\* C8: a call that returns had equal source and target batch sizes, and the
\* returned buffer has shape (batch size, target length, declared Decoder
\* width), with data of exactly those extents.
C8_ReturnedShape ==
    pc = "done" =>
        /\ ~BatchMismatch
        /\ result.shape = <<tokenized_source_sentence.shape[1], T, out_features>>
        /\ DOMAIN result.data = 0..(tokenized_target_sentence.shape[1] - 1)
        /\ \A i \in DOMAIN result.data :
             /\ DOMAIN result.data[i] = 0..(T - 1)
             /\ \A t \in DOMAIN result.data[i] :
                  DOMAIN result.data[i][t] = 0..(out_features - 1)

C8_Witness ==
    /\ pc = "done"
    /\ T >= 2
    /\ tokenized_source_sentence.shape[2] # T
    /\ tokenized_source_sentence.shape[2] # out_features
    /\ result.shape = <<tokenized_source_sentence.shape[1], T, out_features>>

\* C9 (as stated, whatever the error raised is called): a Decoder call that
\* returns a distribution whose width is not the declared one is the last
\* Decoder call, its distribution is never stored into the buffer
\* (truncated, padded or broadcast), the call fails at that step and no
\* buffer is returned.
C9_WidthMismatchFails ==
    \A n \in 1..Len(decoder_calls) :
        decoder_calls[n].distribution.shape[2] # out_features =>
            /\ Len(decoder_calls) = n
            /\ Len(writes) < n
            /\ pc \in {"write", "failed"}
            /\ result = NoTensor

\* C10: the first Decoder call receives the (hidden, cell) pair the Encoder
\* call returned, and every later Decoder call receives the pair the
\* Decoder call just before it returned, in both modes.
C10_StateThreaded ==
    \A n \in 1..Len(decoder_calls) :
        IF n = 1
        THEN /\ Len(encoder_calls) = 1
             /\ decoder_calls[n].hidden = encoder_calls[1].new_hidden
             /\ decoder_calls[n].cell = encoder_calls[1].new_cell
        ELSE /\ decoder_calls[n].hidden = decoder_calls[n - 1].new_hidden
             /\ decoder_calls[n].cell = decoder_calls[n - 1].new_cell
             /\ decoder_calls[n].hidden # encoder_calls[1].new_hidden
             /\ decoder_calls[n].cell # encoder_calls[1].new_cell

C10_Witness ==
    /\ pc = "done"
    /\ Len(decoder_calls) >= 2
    /\ decoder_calls[2].hidden = decoder_calls[1].new_hidden
    /\ decoder_calls[2].hidden # decoder_calls[1].hidden

====
